---------------------------- MODULE Spec2Model ----------------------------
(***************************************************************************)
(* A model of the three scripts of tidy_finance:                           *)
(*   ch1_1_working_with_stock_returns.py    (returns from prices)          *)
(*   ch1_2_modern_portfolio_theory.py       (minimum-variance, efficient)  *)
(*   ch1_3_capital_asset_pricing_model.py   (tangency portfolio)           *)
(*                                                                         *)
(* Each script is a straight-line run(); the model follows it statement    *)
(* group by statement group, with pc naming the next group to execute.     *)
(*                                                                         *)
(* NUMBERS.  A float64 is modelled as a pair <<n, d>>:                     *)
(*   d > 0 : the rational n/d in lowest terms,                             *)
(*   d = 0 : a non-finite value, <<0,0>> = NaN, <<1,0>> = +inf,            *)
(*           <<-1,0>> = -inf.                                              *)
(* The arithmetic follows IEEE-754 as numpy applies it to float64 scalars  *)
(* and arrays (x/0 = +-inf, 0/0 = NaN, inf-inf = NaN, 0*inf = NaN, NaN     *)
(* propagates, no exception), except that finite results are exact: the    *)
(* model has no rounding error.  Signed zeros are not distinguished.       *)
(* A square root is kept symbolically (see Sqrt).                          *)
(*                                                                         *)
(* TABLES.  A pandas DataFrame is a sequence of records (its rows, in row  *)
(* order); a missing value is NaN.  Plotting and printing are not          *)
(* modelled.  The download yields one close per symbol and month, so the   *)
(* monthly "last" aggregation keeps every close.                           *)
(***************************************************************************)
EXTENDS Integers, Sequences, FiniteSets

\* ------------------------------------------------------------------ bounds

\* Number of periods (months; trading days in ch1_1) of downloaded history.
NumPeriods == 4

\* The adjusted closes a download may hold.
PriceLevels == {1, 2}

\* The index constituents, in lexicographic order (pandas sorts group keys
\* and pivot columns this way).
Symbols == <<"AAPL", "MSFT">>

\* ------------------------------------------------------- float64 arithmetic

NaN == <<0, 0>>
PInf == <<1, 0>>
NInf == <<-1, 0>>

Abs(n) == IF n < 0 THEN -n ELSE n

Sign(n) == IF n > 0 THEN 1 ELSE IF n < 0 THEN -1 ELSE 0

RECURSIVE GCD(_, _)
GCD(a, b) == IF b = 0 THEN a ELSE GCD(b, a % b)

\* n/d in lowest terms with a positive denominator; n/0 is +-inf or NaN.
Norm(n, d) ==
    IF d = 0 THEN <<Sign(n), 0>>
    ELSE LET g == GCD(Abs(n), Abs(d))
             s == IF d < 0 THEN -1 ELSE 1
         IN <<(s * n) \div g, (s * d) \div g>>

F(n) == <<n, 1>>

IsNaN(x) == x = NaN

IsFinite(x) == x[2] # 0

FNeg(x) == <<-x[1], x[2]>>

FAdd(x, y) ==
    IF IsNaN(x) \/ IsNaN(y) THEN NaN
    ELSE IF ~IsFinite(x) /\ ~IsFinite(y) THEN (IF x = y THEN x ELSE NaN)
    ELSE IF ~IsFinite(x) THEN x
    ELSE IF ~IsFinite(y) THEN y
    ELSE LET g == GCD(x[2], y[2])
         IN Norm(x[1] * (y[2] \div g) + y[1] * (x[2] \div g), (x[2] \div g) * y[2])

FSub(x, y) == FAdd(x, FNeg(y))

FMul(x, y) ==
    IF IsNaN(x) \/ IsNaN(y) THEN NaN
    ELSE IF ~IsFinite(x) \/ ~IsFinite(y)
         THEN (IF x[1] = 0 \/ y[1] = 0 THEN NaN ELSE <<Sign(x[1]) * Sign(y[1]), 0>>)
    ELSE LET g == GCD(Abs(x[1]), y[2])
             h == GCD(Abs(y[1]), x[2])
         IN Norm((x[1] \div g) * (y[1] \div h), (x[2] \div h) * (y[2] \div g))

FDiv(x, y) ==
    IF IsNaN(x) \/ IsNaN(y) THEN NaN
    ELSE IF ~IsFinite(x) /\ ~IsFinite(y) THEN NaN
    ELSE IF ~IsFinite(x) THEN <<x[1] * (IF y[1] < 0 THEN -1 ELSE 1), 0>>
    ELSE IF ~IsFinite(y) THEN F(0)
    ELSE IF y[1] = 0 THEN <<Sign(x[1]), 0>>
    ELSE LET g == GCD(Abs(x[1]), Abs(y[1]))
             h == GCD(x[2], y[2])
         IN Norm((x[1] \div g) * (y[2] \div h), (x[2] \div h) * (y[1] \div g))

\* x < y and x <= y on finite values.
FLess(x, y) ==
    LET g == GCD(x[2], y[2]) IN x[1] * (y[2] \div g) < y[1] * (x[2] \div g)

FLeq(x, y) ==
    LET g == GCD(x[2], y[2]) IN x[1] * (y[2] \div g) <= y[1] * (x[2] \div g)

\* np.sqrt: NaN (with a RuntimeWarning, not an exception) for a negative or
\* NaN radicand, +inf for +inf, and otherwise the non-negative root, kept
\* symbolically as the root of its radicand.
Sqrt(x) ==
    IF IsNaN(x) \/ x[1] < 0 THEN [kind |-> "nan", of |-> NaN]
    ELSE IF ~IsFinite(x) THEN [kind |-> "inf", of |-> x]
    ELSE [kind |-> "root", of |-> x]

\* ------------------------------------------------------------ numpy arrays

RECURSIVE SumTo(_, _)
SumTo(v, k) == IF k = 0 THEN F(0) ELSE FAdd(SumTo(v, k - 1), v[k])

\* np.sum(v)
Sum(v) == SumTo(v, Len(v))

\* u @ v for two vectors
Dot(u, v) == Sum([i \in 1..Len(u) |-> FMul(u[i], v[i])])

\* M @ v
MatVec(M, v) == [i \in 1..Len(M) |-> Dot(M[i], v)]

\* v @ M
VecMat(v, M) == [j \in 1..Len(v) |-> Sum([i \in 1..Len(v) |-> FMul(v[i], M[i][j])])]

Scale(c, v) == [i \in 1..Len(v) |-> FMul(c, v[i])]

VAdd(u, v) == [i \in 1..Len(u) |-> FAdd(u[i], v[i])]

VSub(u, v) == [i \in 1..Len(u) |-> FSub(u[i], v[i])]

VDiv(v, c) == [i \in 1..Len(v) |-> FDiv(v[i], c)]

Minor(M, i, j) ==
    [r \in 1..(Len(M) - 1) |->
        [c \in 1..(Len(M) - 1) |->
            M[IF r < i THEN r ELSE r + 1][IF c < j THEN c ELSE c + 1]]]

Alt(k) == IF k % 2 = 0 THEN F(1) ELSE F(-1)

RECURSIVE Det(_)
Det(M) ==
    IF Len(M) = 0 THEN F(1)
    ELSE Sum([j \in 1..Len(M) |->
                 FMul(FMul(Alt(1 + j), M[1][j]), Det(Minor(M, 1, j)))])

\* A singular matrix goes unnoticed.
IsSingular_Unchecked(M) == FALSE

\* What LAPACK's LU factorisation reports for an exactly singular matrix.
IsSingular(M) == Det(M) = F(0)

\* np.linalg.inv(M) for a non-singular M.
Inv(M) ==
    LET d == Det(M)
    IN [i \in 1..Len(M) |->
           [j \in 1..Len(M) |->
               FDiv(FMul(Alt(i + j), Det(Minor(M, j, i))), d)]]

\* np.linalg.solve(M, b) for a non-singular M.
Solve(M, b) == MatVec(Inv(M), b)

\* ----------------------------------------------------------- pandas tables

SymbolSet == {Symbols[i] : i \in 1..Len(Symbols)}

Periods == 1..NumPeriods

RECURSIVE SortedSeq(_)
SortedSeq(S) ==
    IF S = {} THEN <<>>
    ELSE LET m == CHOOSE x \in S : \A y \in S : x <= y
         IN <<m>> \o SortedSeq(S \ {m})

RECURSIVE Flatten(_)
Flatten(ss) == IF ss = <<>> THEN <<>> ELSE Head(ss) \o Flatten(Tail(ss))

\* The distinct symbols of a table, sorted: the group keys of
\* groupby("symbol") and the columns of pivot(columns="symbol").
SortedSymbols(rows) ==
    SelectSeq(Symbols, LAMBDA s : \E i \in 1..Len(rows) : rows[i].symbol = s)

\* The rows of one symbol, in row order.
RowsOf(rows, s) == SelectSeq(rows, LAMBDA r : r.symbol = s)

\* The distinct dates of a table, sorted (the index of pivot(index="date")).
SortedDates(rows) == SortedSeq({rows[i].date : i \in 1..Len(rows)})

\* tf.download_data(domain="stock_prices", ...): one row per symbol and
\* period, the symbols in the order the constituents were listed.
Download(order, close) ==
    [k \in 1..(Len(order) * NumPeriods) |->
        LET s == order[((k - 1) \div NumPeriods) + 1]
            d == ((k - 1) % NumPeriods) + 1
        IN [symbol |-> s, date |-> d, adjusted_close |-> F(close[s][d])]]

\* groupby(by="symbol")["adjusted_close"].transform("count"), then
\* query("counts == counts.max()"): the symbols with the longest history.
Counts(rows, s) == Len(SelectSeq(RowsOf(rows, s), LAMBDA r : ~IsNaN(r.adjusted_close)))

KeepMaxCount(rows) ==
    LET most == CHOOSE n \in {Counts(rows, rows[i].symbol) : i \in 1..Len(rows)} :
                    \A j \in 1..Len(rows) : Counts(rows, rows[j].symbol) <= n
    IN SelectSeq(rows, LAMBDA r : Counts(rows, r.symbol) = most)

\* groupby(["symbol", "date"], as_index=False).agg(adjusted_close=
\* ("adjusted_close", "last")): one row per (symbol, date), sorted by the
\* keys, holding the last close of the group in row order.
MonthlyLast(rows) ==
    Flatten([k \in 1..Len(SortedSymbols(rows)) |->
        LET s == SortedSymbols(rows)[k]
            g == RowsOf(rows, s)
            ds == SortedDates(g)
        IN [n \in 1..Len(ds) |->
               LET last == CHOOSE i \in 1..Len(g) :
                               /\ g[i].date = ds[n]
                               /\ \A j \in 1..Len(g) : g[j].date = ds[n] => j <= i
               IN [symbol |-> s, date |-> ds[n],
                   adjusted_close |-> g[last].adjusted_close]]])

\* Series.pct_change() on one group, in row order: NaN for the first row,
\* close/previous - 1 for the others.
PctChangeSeq(v) ==
    [i \in 1..Len(v) |->
        IF i = 1 THEN NaN ELSE FSub(FDiv(v[i], v[i - 1]), F(1))]

\* assign(ret = x.groupby("symbol")["adjusted_close"].pct_change()): the
\* percentage change within each symbol, written back to the row it came
\* from; the row order of the table is kept.
PctChange(rows) ==
    [i \in 1..Len(rows) |->
        LET before == {j \in 1..(i - 1) : rows[j].symbol = rows[i].symbol}
            group == RowsOf(rows, rows[i].symbol)
            closes == [j \in 1..Len(group) |-> group[j].adjusted_close]
        IN [symbol |-> rows[i].symbol, date |-> rows[i].date,
            adjusted_close |-> rows[i].adjusted_close,
            ret |-> PctChangeSeq(closes)[Cardinality(before) + 1]]]

\* dropna(subset="ret") / dropna() on a table whose only missing values
\* are in ret.
DropNa(rows) == SelectSeq(rows, LAMBDA r : ~IsNaN(r.ret))

\* The ret column of one symbol, in row order.
RetsOf(rows, s) ==
    LET group == RowsOf(rows, s) IN [i \in 1..Len(group) |-> group[i].ret]

NonNaN(v) == SelectSeq(v, LAMBDA x : ~IsNaN(x))

\* Series.mean(): the mean of the non-missing values (NaN if there is none).
Mean(v) == LET w == NonNaN(v) IN FDiv(Sum(w), F(Len(w)))

\* Sum of products of deviations over n - 1 (ddof = 1); NaN below two
\* observations.
CoMoment(u, v) ==
    IF Len(u) < 2 THEN NaN
    ELSE LET mu_u == Mean(u)
             mu_v == Mean(v)
         IN FDiv(Sum([i \in 1..Len(u) |-> FMul(FSub(u[i], mu_u), FSub(v[i], mu_v))]),
                 F(Len(u) - 1))

\* Series.std(): the sample standard deviation of the non-missing values.
Std(v) == LET w == NonNaN(v) IN Sqrt(CoMoment(w, w))

\* groupby("symbol", as_index=False).agg(mu=("ret","mean"),
\* sigma=("ret","std")): one row per symbol, sorted by symbol.
EstimateAssets(rows) ==
    LET keys == SortedSymbols(rows)
    IN [k \in 1..Len(keys) |->
           LET ret == RetsOf(rows, keys[k])
           IN [symbol |-> keys[k], mu |-> Mean(ret), sigma |-> Std(ret)]]

\* pivot(index="date", columns="symbol", values="ret"): one row per date
\* (sorted), one column per symbol (sorted), NaN where there is no entry.
Pivot(rows) ==
    LET index == SortedDates(rows)
        columns == SortedSymbols(rows)
    IN [n \in 1..Len(index) |->
           [k \in 1..Len(columns) |->
               LET hit == {i \in 1..Len(rows) :
                              /\ rows[i].date = index[n]
                              /\ rows[i].symbol = columns[k]}
               IN IF hit = {} THEN NaN ELSE rows[CHOOSE i \in hit : TRUE].ret]]

\* DataFrame.cov(): the sample covariance of every pair of columns over
\* the rows where both are present.
Cov(wide) ==
    LET n == IF wide = <<>> THEN 0 ELSE Len(wide[1])
    IN [a \in 1..n |->
           [b \in 1..n |->
               LET both == SelectSeq(wide, LAMBDA r : ~IsNaN(r[a]) /\ ~IsNaN(r[b]))
               IN CoMoment([i \in 1..Len(both) |-> both[i][a]],
                           [i \in 1..Len(both) |-> both[i][b]])]]

\* ------------------------------------------------------ portfolio formulas

Iota(n) == [i \in 1..n |-> F(1)]

\* The weights left unnormalised.
MinVarianceWeights_Unnormalised(inv) == MatVec(inv, Iota(Len(inv)))

\* The weights taken from sigma in place of its inverse.
MinVarianceWeights_NotInverted(inv) ==
    LET iota == Iota(Len(inv))
        cov == Inv(inv)
    IN VDiv(MatVec(cov, iota), Dot(VecMat(iota, cov), iota))

\* ch1_2: omega_mvp = (sigma_inv @ iota) / (iota @ sigma_inv @ iota)
MinVarianceWeights(inv) ==
    LET iota == Iota(Len(inv))
    IN VDiv(MatVec(inv, iota), Dot(VecMat(iota, inv), iota))

\* omega @ mu
PortfolioReturn(omega, m) == Dot(omega, m)

\* omega @ sigma @ omega, evaluated left to right
PortfolioVariance(omega, cov) == Dot(VecMat(omega, cov), omega)

\* np.sqrt(omega @ sigma @ omega)
PortfolioVolatility(omega, cov) == Sqrt(PortfolioVariance(omega, cov))

\* ch1_2: C, D, E, lambda_tilde and omega_efp for the target return mu_bar.
ScalarC(inv) == Dot(VecMat(Iota(Len(inv)), inv), Iota(Len(inv)))

ScalarD(inv, m) == Dot(VecMat(Iota(Len(inv)), inv), m)

ScalarE(inv, m) == Dot(VecMat(m, inv), m)

\* E - (D**2) / C
Denominator(inv, m) ==
    LET D == ScalarD(inv, m)
    IN FSub(ScalarE(inv, m), FDiv(FMul(D, D), ScalarC(inv)))

\* lambda_tilde without its factor 2.
LambdaTilde_Halved(inv, m, mu_bar) ==
    FDiv(FSub(mu_bar, FDiv(ScalarD(inv, m), ScalarC(inv))), Denominator(inv, m))

LambdaTilde(inv, m, mu_bar) ==
    FDiv(FMul(F(2), FSub(mu_bar, FDiv(ScalarD(inv, m), ScalarC(inv)))),
         Denominator(inv, m))

EfficientWeights(inv, m, mvp, mu_bar) ==
    VAdd(mvp,
         Scale(FDiv(LambdaTilde(inv, m, mu_bar), F(2)),
               VSub(MatVec(inv, m), Scale(ScalarD(inv, m), mvp))))

\* Series.max(): the largest non-missing value.
MaxOf(v) ==
    LET w == NonNaN(v)
    IN IF w = <<>> THEN NaN
       ELSE w[CHOOSE i \in 1..Len(w) : \A j \in 1..Len(w) : FLeq(w[j], w[i])]

\* The values of a, a subset of np.arange(-1, 2.01, 0.01).
FrontierGrid == <<F(-1), F(0), <<1, 2>>, F(1), F(2)>>

\* ch1_2: one row of efficient_frontier.
FrontierRow(a, efp, mvp, m, cov) ==
    LET omega == VAdd(Scale(a, efp), Scale(FSub(F(1), a), mvp))
    IN [a |-> a, omega |-> omega, mu |-> PortfolioReturn(omega, m),
        sigma |-> PortfolioVolatility(omega, cov)]

\* ch1_3: w_tan = solve(sigma, mu - rf); w_tan = w_tan / np.sum(w_tan)
ExcessReturns(m, r) == [i \in 1..Len(m) |-> FSub(m[i], r)]

\* The solution left unnormalised.
TangencyWeights_Unnormalised(cov, m, r) == Solve(cov, ExcessReturns(m, r))

\* The risk-free rate left out of the right-hand side.
TangencyWeights_NoRiskFree(cov, m, r) ==
    LET x == Solve(cov, m) IN VDiv(x, Sum(x))

TangencyWeights(cov, m, r) ==
    LET x == Solve(cov, ExcessReturns(m, r)) IN VDiv(x, Sum(x))

\* The table's rows ordered by omega_mvp, ascending, missing values last
\* (DataFrame.sort_values("omega_mvp")).
RECURSIVE SortByOmega(_)
SortByOmega(rows) ==
    IF rows = <<>> THEN <<>>
    ELSE LET before(x, y) ==
                 IF IsFinite(x) /\ IsFinite(y) THEN FLeq(x, y)
                 ELSE IsFinite(x) \/ ~IsFinite(y)
             k == CHOOSE i \in 1..Len(rows) :
                      \A j \in 1..Len(rows) :
                          /\ before(rows[i].omega_mvp, rows[j].omega_mvp)
                          /\ (before(rows[j].omega_mvp, rows[i].omega_mvp) => i <= j)
         IN <<rows[k]>> \o
            SortByOmega([j \in 1..(Len(rows) - 1) |->
                            IF j < k THEN rows[j] ELSE rows[j + 1]])

\* assets.assign(omega_mvp=omega_mvp): the weights attached by position.
AssignOmega(rows, omega) ==
    [i \in 1..Len(rows) |->
        [symbol |-> rows[i].symbol, mu |-> rows[i].mu, sigma |-> rows[i].sigma,
         omega_mvp |-> omega[i]]]

\* The table itself reordered by omega_mvp.
OrderBySymbolCategory_Sorted(rows) ==
    [table |-> SortByOmega(rows),
     categories |-> [i \in 1..Len(rows) |-> SortByOmega(rows)[i].symbol]]

\* assets["symbol"] = pd.Categorical(assets["symbol"], categories=
\* assets.sort_values("omega_mvp")["symbol"], ordered=True): the column
\* keeps its values row by row; only the category order is new.
OrderBySymbolCategory(rows) ==
    [table |-> rows,
     categories |-> [i \in 1..Len(rows) |-> SortByOmega(rows)[i].symbol]]

\* -------------------------------------------------------------------- state

VARIABLES
    script,              \* the script whose run() is executing
    pc,                  \* the next statement group of run()
    prices_daily,        \* the downloaded prices
    returns,             \* ch1_1: the returns of AAPL
    returns_daily,       \* ch1_1: the daily returns of all symbols
    returns_monthly,     \* the monthly returns
    assets,              \* one row per symbol: symbol, mu, sigma (, omega_mvp)
    symbol_categories,   \* ch1_2: the category order of assets["symbol"]
    sigma,               \* the variance-covariance matrix
    sigma_inv,           \* ch1_2: its inverse
    mu,                  \* the vector of mean returns
    omega_mvp,           \* ch1_2: minimum-variance weights
    summary_mvp,         \* ch1_2: mu_mvp, sigma_mvp
    omega_efp,           \* ch1_2: efficient-portfolio weights
    summary_efp,         \* ch1_2: mu_efp, sigma_efp
    efficient_frontier,  \* ch1_2: the frontier table
    rf,                  \* ch1_3: the risk-free rate
    w_tan,               \* ch1_3: tangency weights
    efficient_portfolios,\* ch1_3: mu_w, sigma_w
    sharpe_ratio         \* ch1_3

vars == <<script, pc, prices_daily, returns, returns_daily, returns_monthly,
          assets, symbol_categories, sigma, sigma_inv, mu, omega_mvp,
          summary_mvp, omega_efp, summary_efp, efficient_frontier, rf, w_tan,
          efficient_portfolios, sharpe_ratio>>

ch1_1_vars == <<returns, returns_daily>>

ch1_2_vars == <<symbol_categories, sigma_inv, omega_mvp, summary_mvp, omega_efp,
                summary_efp, efficient_frontier>>

ch1_3_vars == <<rf, w_tan, efficient_portfolios, sharpe_ratio>>

Scripts == {"ch1_1", "ch1_2", "ch1_3"}

\* The orders in which the constituents may be listed.
Listings ==
    {o \in [1..Len(Symbols) -> SymbolSet] :
        \A i, j \in 1..Len(Symbols) : o[i] = o[j] => i = j}

\* The monthly risk-free rates the ^IRX download may average to.
RiskFreeRates == {F(0), <<1, 6>>, <<1, 4>>, F(1)}

\* The state when run() has downloaded the prices; nothing is computed yet.
Init ==
    /\ script \in Scripts
    /\ pc = "returns"
    /\ \E o \in Listings, close \in [SymbolSet -> [Periods -> PriceLevels]] :
           prices_daily = Download(o, close)
    /\ returns = <<>>
    /\ returns_daily = <<>>
    /\ returns_monthly = <<>>
    /\ assets = <<>>
    /\ symbol_categories = <<>>
    /\ sigma = <<>>
    /\ sigma_inv = <<>>
    /\ mu = <<>>
    /\ omega_mvp = <<>>
    /\ summary_mvp = <<>>
    /\ omega_efp = <<>>
    /\ summary_efp = <<>>
    /\ efficient_frontier = <<>>
    /\ rf = <<>>
    /\ w_tan = <<>>
    /\ efficient_portfolios = <<>>
    /\ sharpe_ratio = <<>>

\* ------------------------------------------------------------------ ch1_1

\* prices.sort_values("date")
RECURSIVE SortByDate(_)
SortByDate(rows) ==
    IF rows = <<>> THEN <<>>
    ELSE LET k == CHOOSE i \in 1..Len(rows) :
                      \A j \in 1..Len(rows) :
                          /\ rows[i].date <= rows[j].date
                          /\ (rows[j].date = rows[i].date => i <= j)
         IN <<rows[k]>> \o
            SortByDate([j \in 1..(Len(rows) - 1) |->
                           IF j < k THEN rows[j] ELSE rows[j + 1]])

\* .loc[:, ["symbol", "date", "ret"]] / .get(["symbol", "date", "ret"])
SelectRet(rows) ==
    [i \in 1..Len(rows) |->
        [symbol |-> rows[i].symbol, date |-> rows[i].date, ret |-> rows[i].ret]]

\* np.prod(1 + x) - 1
RECURSIVE ProdOnePlus(_)
ProdOnePlus(v) ==
    IF v = <<>> THEN F(1) ELSE FMul(FAdd(F(1), Head(v)), ProdOnePlus(Tail(v)))

\* groupby(["symbol", "date"], as_index=False).agg(ret=np.prod(1 + x) - 1)
Compound(rows) ==
    Flatten([k \in 1..Len(SortedSymbols(rows)) |->
        LET s == SortedSymbols(rows)[k]
            g == RowsOf(rows, s)
            ds == SortedDates(g)
        IN [n \in 1..Len(ds) |->
               [symbol |-> s, date |-> ds[n],
                ret |-> FSub(ProdOnePlus(RetsOf(SelectSeq(g, LAMBDA r : r.date = ds[n]), s)),
                             F(1))]]])

\* ch1_1 lines 24-29: the returns of AAPL, missing values dropped.
AppleReturns ==
    /\ script = "ch1_1" /\ pc = "returns"
    /\ returns' = DropNa(SelectRet(PctChange(SortByDate(RowsOf(prices_daily, "AAPL")))))
    /\ pc' = "returns_daily"
    /\ UNCHANGED <<script, prices_daily, returns_daily, returns_monthly, assets,
                   sigma, mu, ch1_2_vars, ch1_3_vars>>

\* ch1_1 lines 67-73: the daily returns of every symbol, missing values dropped.
DailyReturns ==
    /\ script = "ch1_1" /\ pc = "returns_daily"
    /\ returns_daily' = DropNa(SelectRet(PctChange(prices_daily)))
    /\ pc' = "returns_monthly"
    /\ UNCHANGED <<script, prices_daily, returns, returns_monthly, assets,
                   sigma, mu, ch1_2_vars, ch1_3_vars>>

\* ch1_1 lines 76-82: daily returns compounded by month.
CompoundMonthly ==
    /\ script = "ch1_1" /\ pc = "returns_monthly"
    /\ returns_monthly' = Compound(returns_daily)
    /\ pc' = "done"
    /\ UNCHANGED <<script, prices_daily, returns, returns_daily, assets,
                   sigma, mu, ch1_2_vars, ch1_3_vars>>

\* ---------------------------------------------------------- ch1_2 and ch1_3

\* ch1_2 lines 22-40, ch1_3 lines 23-37 (the same statements): keep the
\* symbols with the longest history, take the last close of each month and
\* its percentage change within the symbol.
MonthlyReturns ==
    /\ script \in {"ch1_2", "ch1_3"} /\ pc = "returns"
    /\ returns_monthly' = PctChange(MonthlyLast(KeepMaxCount(prices_daily)))
    /\ pc' = IF script = "ch1_2" THEN "assets" ELSE "risk_free"
    /\ UNCHANGED <<script, prices_daily, returns, returns_daily, assets,
                   sigma, mu, ch1_2_vars, ch1_3_vars>>

\* ------------------------------------------------------------------ ch1_2

\* ch1_2 lines 43-45
Estimate ==
    /\ script = "ch1_2" /\ pc = "assets"
    /\ assets' = EstimateAssets(returns_monthly)
    /\ pc' = "sigma"
    /\ UNCHANGED <<script, prices_daily, ch1_1_vars, returns_monthly,
                   sigma, mu, ch1_2_vars, ch1_3_vars>>

\* ch1_2 lines 63-77
Covariance ==
    /\ script = "ch1_2" /\ pc = "sigma"
    /\ sigma' = Cov(Pivot(returns_monthly))
    /\ pc' = "omega_mvp"
    /\ UNCHANGED <<script, prices_daily, ch1_1_vars, returns_monthly,
                   assets, mu, ch1_2_vars, ch1_3_vars>>

\* ch1_2 lines 113-115: np.linalg.inv raises LinAlgError on a singular
\* sigma, which run() does not catch.
MinimumVariance ==
    /\ script = "ch1_2" /\ pc = "omega_mvp"
    /\ IF IsSingular(sigma)
       THEN /\ pc' = "LinAlgError"
            /\ UNCHANGED <<sigma_inv, omega_mvp>>
       ELSE /\ sigma_inv' = Inv(sigma)
            /\ omega_mvp' = MinVarianceWeights(sigma_inv')
            /\ pc' = "categories"
    /\ UNCHANGED <<script, prices_daily, ch1_1_vars, returns_monthly, assets,
                   sigma, mu, symbol_categories, summary_mvp, omega_efp,
                   summary_efp, efficient_frontier, ch1_3_vars>>

\* ch1_2 lines 121-127
OrderAssets ==
    /\ script = "ch1_2" /\ pc = "categories"
    /\ LET ordered == OrderBySymbolCategory(AssignOmega(assets, omega_mvp))
       IN /\ assets' = ordered.table
          /\ symbol_categories' = ordered.categories
    /\ pc' = "summary_mvp"
    /\ UNCHANGED <<script, prices_daily, ch1_1_vars, returns_monthly, sigma, mu,
                   sigma_inv, omega_mvp, summary_mvp, omega_efp, summary_efp,
                   efficient_frontier, ch1_3_vars>>

\* ch1_2 lines 140-146
SummaryMvp ==
    /\ script = "ch1_2" /\ pc = "summary_mvp"
    /\ mu' = [i \in 1..Len(assets) |-> assets[i].mu]
    /\ summary_mvp' = [mu |-> PortfolioReturn(omega_mvp, mu'),
                       sigma |-> PortfolioVolatility(omega_mvp, sigma),
                       type |-> "Minimum-Variance Portfolio"]
    /\ pc' = "omega_efp"
    /\ UNCHANGED <<script, prices_daily, ch1_1_vars, returns_monthly, assets,
                   sigma, symbol_categories, sigma_inv, omega_mvp, omega_efp,
                   summary_efp, efficient_frontier, ch1_3_vars>>

\* ch1_2 lines 149-160: the division by E - D**2/C raises nothing.
EfficientPortfolio ==
    /\ script = "ch1_2" /\ pc = "omega_efp"
    /\ omega_efp' = EfficientWeights(sigma_inv, mu, omega_mvp,
                                     MaxOf([i \in 1..Len(assets) |-> assets[i].mu]))
    /\ summary_efp' = [mu |-> PortfolioReturn(omega_efp', mu),
                       sigma |-> PortfolioVolatility(omega_efp', sigma),
                       type |-> "Efficient Portfolio"]
    /\ pc' = "efficient_frontier"
    /\ UNCHANGED <<script, prices_daily, ch1_1_vars, returns_monthly, assets,
                   sigma, mu, symbol_categories, sigma_inv, omega_mvp,
                   summary_mvp, efficient_frontier, ch1_3_vars>>

\* ch1_2 lines 179-188
Frontier ==
    /\ script = "ch1_2" /\ pc = "efficient_frontier"
    /\ efficient_frontier' =
           [k \in 1..Len(FrontierGrid) |->
               FrontierRow(FrontierGrid[k], omega_efp, omega_mvp, mu, sigma)]
    /\ pc' = "done"
    /\ UNCHANGED <<script, prices_daily, ch1_1_vars, returns_monthly, assets,
                   sigma, mu, symbol_categories, sigma_inv, omega_mvp,
                   summary_mvp, omega_efp, summary_efp, ch1_3_vars>>

\* ------------------------------------------------------------------ ch1_3

\* ch1_3 lines 39-49
RiskFree ==
    /\ script = "ch1_3" /\ pc = "risk_free"
    /\ rf' \in RiskFreeRates
    /\ pc' = "assets"
    /\ UNCHANGED <<script, prices_daily, ch1_1_vars, returns_monthly, assets,
                   sigma, mu, ch1_2_vars, w_tan, efficient_portfolios, sharpe_ratio>>

\* ch1_3 lines 51-57
Moments ==
    /\ script = "ch1_3" /\ pc = "assets"
    /\ assets' = EstimateAssets(returns_monthly)
    /\ sigma' = Cov(Pivot(returns_monthly))
    /\ mu' = [k \in 1..Len(SortedSymbols(returns_monthly)) |->
                 Mean(RetsOf(returns_monthly, SortedSymbols(returns_monthly)[k]))]
    /\ pc' = "w_tan"
    /\ UNCHANGED <<script, prices_daily, ch1_1_vars, returns_monthly,
                   ch1_2_vars, ch1_3_vars>>

\* ch1_3 lines 59-60: np.linalg.solve raises LinAlgError on a singular
\* sigma; the division by np.sum(w_tan) raises nothing.
Tangency ==
    /\ script = "ch1_3" /\ pc = "w_tan"
    /\ IF IsSingular(sigma)
       THEN /\ pc' = "LinAlgError"
            /\ UNCHANGED w_tan
       ELSE /\ w_tan' = TangencyWeights(sigma, mu, rf)
            /\ pc' = "sharpe_ratio"
    /\ UNCHANGED <<script, prices_daily, ch1_1_vars, returns_monthly, assets,
                   sigma, mu, ch1_2_vars, rf, efficient_portfolios, sharpe_ratio>>

\* ch1_3 lines 62-72; the Sharpe ratio (mu_w - rf) / sigma_w is kept as its
\* numerator and its denominator.
TangencySummary ==
    /\ script = "ch1_3" /\ pc = "sharpe_ratio"
    /\ efficient_portfolios' = [mu |-> PortfolioReturn(w_tan, mu),
                                sigma |-> PortfolioVolatility(w_tan, sigma)]
    /\ sharpe_ratio' = [excess |-> FSub(PortfolioReturn(w_tan, mu), rf),
                        volatility |-> PortfolioVolatility(w_tan, sigma)]
    /\ pc' = "done"
    /\ UNCHANGED <<script, prices_daily, ch1_1_vars, returns_monthly, assets,
                   sigma, mu, ch1_2_vars, rf, w_tan>>

Next ==
    \/ AppleReturns
    \/ DailyReturns
    \/ CompoundMonthly
    \/ MonthlyReturns
    \/ Estimate
    \/ Covariance
    \/ MinimumVariance
    \/ OrderAssets
    \/ SummaryMvp
    \/ EfficientPortfolio
    \/ Frontier
    \/ RiskFree
    \/ Moments
    \/ Tangency
    \/ TangencySummary

Spec == Init /\ [][Next]_vars

\* ------------------------------------------------------------- properties

\* The weight vectors the optimality properties are compared against: every
\* vector with entries k / WeightSteps, -WeightSteps <= k <= 2 * WeightSteps,
\* that sums to 1.
WeightSteps == 4

GridValues == {Norm(k, WeightSteps) : k \in (-WeightSteps)..(2 * WeightSteps)}

GridWeights == {w \in [1..Len(Symbols) -> GridValues] : Sum(w) = F(1)}

MvpDone == script = "ch1_2" /\ omega_mvp # <<>>

MvpSummarised == script = "ch1_2" /\ summary_mvp # <<>>

EfpDone == script = "ch1_2" /\ summary_efp # <<>>

TangencyDone == script = "ch1_3" /\ w_tan # <<>>

TangencySummarised == script = "ch1_3" /\ sharpe_ratio # <<>>

\* C1: the minimum-variance weights computed from an invertible sigma sum
\* to 1.
C1_MvpWeightsSumToOne ==
    MvpDone => Sum(omega_mvp) = F(1)

C1_Witness ==
    /\ MvpDone
    /\ omega_mvp[1] # omega_mvp[2]
    /\ \E i \in 1..Len(omega_mvp) : omega_mvp[i][1] < 0

\* C2: no weight vector that sums to 1 has a smaller variance (hence a
\* smaller volatility) than the computed minimum-variance portfolio.
C2_MvpIsMinimal ==
    MvpSummarised =>
        /\ summary_mvp.sigma.kind = "root"
        /\ \A w \in GridWeights :
               FLeq(summary_mvp.sigma.of, PortfolioVariance(w, sigma))

C2_Witness ==
    /\ MvpSummarised
    /\ \E w \in GridWeights :
           FLess(summary_mvp.sigma.of, PortfolioVariance(w, sigma))
    /\ omega_mvp \notin GridWeights

\* The target returns of C3: the largest mean return (the code's mu_bar)
\* and the average mean return.
TargetReturns == {MaxOf(mu), Mean(mu)}

\* C3: when E - D^2/C is not zero, the efficient portfolio reaches its
\* target return: omega_efp @ mu = mu_bar for the computed portfolio, and
\* the same formula reaches the mean of mu when that is the target.
C3_EfpReachesTarget ==
    (EfpDone /\ Denominator(sigma_inv, mu) # F(0)) =>
        /\ summary_efp.mu = MaxOf(mu)
        /\ \A t \in TargetReturns :
               PortfolioReturn(EfficientWeights(sigma_inv, mu, omega_mvp, t), mu) = t

C3_Witness ==
    /\ EfpDone
    /\ Denominator(sigma_inv, mu) # F(0)
    /\ omega_efp # omega_mvp
    /\ MaxOf(mu) # Mean(mu)

\* C4 as stated: the tangency weights sum to exactly 1 for every invertible
\* sigma, every mu and every risk-free rate.
C4_TangencySumsToOne ==
    TangencyDone => Sum(w_tan) = F(1)

\* C4 amended: the tangency weights sum to 1 whenever the entries of the
\* solution x of sigma x = mu - rf do not sum to zero; when they do, the
\* weights are not finite and their sum is NaN.
C4_TangencySumsToOneUnlessZeroSum ==
    TangencyDone =>
        IF Sum(Solve(sigma, ExcessReturns(mu, rf))) # F(0)
        THEN Sum(w_tan) = F(1)
        ELSE Sum(w_tan) = NaN /\ \A i \in 1..Len(w_tan) : ~IsFinite(w_tan[i])

C4_Witness ==
    /\ TangencyDone
    /\ Sum(Solve(sigma, ExcessReturns(mu, rf))) # F(0)
    /\ Solve(sigma, ExcessReturns(mu, rf)) # w_tan
    /\ w_tan[1] # w_tan[2]

\* s1 <= s2 for two Sharpe ratios excess / sqrt(variance) with finite
\* excess returns and positive variances.
SharpeLeq(e1, v1, e2, v2) ==
    \/ e1[1] <= 0 /\ e2[1] >= 0
    \/ e1[1] > 0 /\ e2[1] > 0 /\ FLeq(FMul(FMul(e1, e1), v2), FMul(FMul(e2, e2), v1))
    \/ e1[1] < 0 /\ e2[1] < 0 /\ FLeq(FMul(FMul(e2, e2), v1), FMul(FMul(e1, e1), v2))

\* The Sharpe ratio of the tangency portfolio is defined and no weight
\* vector of the grid has a larger one.
TangencyIsBest ==
    /\ IsFinite(sharpe_ratio.excess)
    /\ sharpe_ratio.volatility.kind = "root"
    /\ \A w \in GridWeights :
           LET e == FSub(PortfolioReturn(w, mu), rf)
           IN SharpeLeq(e, PortfolioVariance(w, sigma),
                        sharpe_ratio.excess, sharpe_ratio.volatility.of)

\* C5 as stated: the tangency portfolio has the largest Sharpe ratio among
\* the weight vectors that sum to 1, for every mu and risk-free rate.
C5_TangencyMaxSharpe ==
    TangencySummarised => TangencyIsBest

\* C5 amended: the tangency portfolio has the largest Sharpe ratio among the
\* weight vectors that sum to 1 when the entries of the solution x of
\* sigma x = mu - rf have a positive sum.
C5_TangencyMaxSharpeIfPositiveSum ==
    (TangencySummarised /\ Sum(Solve(sigma, ExcessReturns(mu, rf)))[1] > 0) =>
        TangencyIsBest

C5_Witness ==
    /\ TangencySummarised
    /\ Sum(Solve(sigma, ExcessReturns(mu, rf)))[1] > 0
    /\ w_tan \notin GridWeights
    /\ \E w \in GridWeights :
           ~SharpeLeq(sharpe_ratio.excess, sharpe_ratio.volatility.of,
                      FSub(PortfolioReturn(w, mu), rf), PortfolioVariance(w, sigma))

\* C6: from a singular sigma no weights and no summary are produced: the
\* inversion (ch1_2) or the solve (ch1_3) ends the run with LinAlgError.
C6_SingularIsFatal ==
    (sigma # <<>> /\ Det(sigma) = F(0)) =>
        /\ omega_mvp = <<>> /\ summary_mvp = <<>>
        /\ omega_efp = <<>> /\ summary_efp = <<>> /\ efficient_frontier = <<>>
        /\ w_tan = <<>> /\ efficient_portfolios = <<>> /\ sharpe_ratio = <<>>
        /\ pc \in {"omega_mvp", "w_tan", "LinAlgError"}
        /\ (pc = "LinAlgError" => ~ENABLED Next)

C6_Witness ==
    /\ pc = "LinAlgError"
    /\ script = "ch1_3"
    /\ sigma[1] = sigma[2]
    /\ sigma[1][1] # F(0)

\* C7: when E - D^2/C is zero the efficient-portfolio step produces no
\* weights and no summary.
C7_DegenerateIsFatal ==
    (script = "ch1_2" /\ sigma_inv # <<>> /\ mu # <<>>
        /\ Denominator(sigma_inv, mu) = F(0)) =>
        omega_efp = <<>> /\ summary_efp = <<>>

\* C8: every volatility the scripts compute is a defined, non-negative
\* number.
Defined(v) == v.kind = "root"

C8_VolatilityDefined ==
    /\ summary_mvp # <<>> => Defined(summary_mvp.sigma)
    /\ summary_efp # <<>> => Defined(summary_efp.sigma)
    /\ \A k \in 1..Len(efficient_frontier) : Defined(efficient_frontier[k].sigma)
    /\ efficient_portfolios # <<>> => Defined(efficient_portfolios.sigma)

\* C9: once the returns are derived, the return table holds no NaN.
NoNaN(rows) == \A i \in 1..Len(rows) : ~IsNaN(rows[i].ret)

C9_ReturnsHoldNoNaN ==
    NoNaN(returns) /\ NoNaN(returns_daily) /\ NoNaN(returns_monthly)

\* C10: in ch1_2, after the weights are attached and the symbol column is
\* made categorical, row i of assets, entry i of mu, entry i of omega_mvp
\* and row/column i of sigma belong to the same symbol.
C10_AssetOrderKept ==
    (script = "ch1_2" /\ symbol_categories # <<>>) =>
        /\ Len(assets) = Len(sigma)
        /\ \A i \in 1..Len(assets) :
               /\ assets[i].symbol = SortedSymbols(returns_monthly)[i]
               /\ assets[i].omega_mvp = omega_mvp[i]
               /\ assets[i].sigma = Sqrt(sigma[i][i])
               /\ assets[i].mu = Mean(RetsOf(returns_monthly, assets[i].symbol))
               /\ mu # <<>> => mu[i] = assets[i].mu

C10_Witness ==
    /\ script = "ch1_2"
    /\ mu # <<>>
    /\ symbol_categories # [i \in 1..Len(assets) |-> assets[i].symbol]
    /\ prices_daily[1].symbol # Symbols[1]
    /\ mu[1] # mu[2]
    /\ sigma[1][1] # sigma[2][2]

=============================================================================
